---------------------------- MODULE Spec2Model ----------------------------
(***************************************************************************)
(* The audio compressor of libavfilter/af_sidechaincompress.c: the         *)
(* single-input filter "acompressor" and the two-input filter              *)
(* "sidechaincompress", both built on compressor() and output_gain().      *)
(*                                                                         *)
(* Every quantity the C code keeps in a `double` is modelled as a binary   *)
(* floating-point number of a small format with the IEEE 754 rules the     *)
(* code runs under: round to nearest, ties to even, after every            *)
(* operation; gradual underflow; overflow to infinity; NaN.  A finite      *)
(* value is the integer count of units of the smallest subnormal, so       *)
(* 1.0 is LS.  Signed zeros are not distinguished.                         *)
(***************************************************************************)
EXTENDS Integers, Sequences, FiniteSets, TLC

\* --------------------------------------------------------------- double
\* Significand bits of the format (53 in the C double).
P == 5
\* Number of binades above the subnormal one; fixes the largest finite value.
KMax == 7
\* Units per 1.0.
LS == 256

TwoP == 2 ^ P
HalfP == 2 ^ (P - 1)
\* DBL_MAX of the format.
MaxV == (TwoP - 1) * (2 ^ KMax)
PInf == MaxV + 1
NInf == 0 - PInf
NaN == MaxV + 2

IsNaN(x) == x = NaN
IsFinite(x) == x >= 0 - MaxV /\ x <= MaxV

One == LS
Half == LS \div 2
Two == 2 * LS
Three == 3 * LS

\* a / d rounded to the nearest integer, ties to even (a >= 0, d > 0).
RoundHalfEven(a, d) ==
  LET q == a \div d
      r == a % d
  IN  IF 2 * r < d THEN q
      ELSE IF 2 * r > d THEN q + 1
      ELSE IF q % 2 = 0 THEN q ELSE q + 1

\* The spacing of the format at magnitude a / d: the least power of two q
\* (at least one unit) with a / d < 2^P * q.
RECURSIVE Quantum(_, _, _)
Quantum(a, d, q) == IF a < TwoP * q * d THEN q ELSE Quantum(a, d, 2 * q)

\* The double nearest to the exact value num / den (den > 0).
Rnd(num, den) ==
  LET a == IF num < 0 THEN 0 - num ELSE num
      q == Quantum(a, den, 1)
      r == RoundHalfEven(a, den * q) * q
  IN  IF r > MaxV THEN (IF num < 0 THEN NInf ELSE PInf)
      ELSE IF num < 0 THEN 0 - r ELSE r

\* The spacing of the doubles around a finite x (one unit in the last place).
Ulp(x) == Quantum(IF x < 0 THEN 0 - x ELSE x, 1, 1)

Sign(x) == IF x < 0 THEN 0 - 1 ELSE 1

FNeg(a) == IF IsNaN(a) THEN NaN ELSE 0 - a

\* a + b, computed.
AddOf(a, b) ==
  IF IsNaN(a) \/ IsNaN(b) THEN NaN
  ELSE IF ~IsFinite(a) THEN (IF ~IsFinite(b) /\ a # b THEN NaN ELSE a)
  ELSE IF ~IsFinite(b) THEN b
  ELSE Rnd(a + b, 1)



\* a * b, computed.
MulOf(a, b) ==
  IF IsNaN(a) \/ IsNaN(b) THEN NaN
  ELSE IF ~IsFinite(a) \/ ~IsFinite(b)
       THEN (IF a = 0 \/ b = 0 THEN NaN ELSE PInf * Sign(a) * Sign(b))
  ELSE Rnd(a * b, LS)

\* a / b, computed.
DivOf(a, b) ==
  IF IsNaN(a) \/ IsNaN(b) THEN NaN
  ELSE IF ~IsFinite(a)
       THEN (IF ~IsFinite(b) THEN NaN ELSE PInf * Sign(a) * Sign(b))
  ELSE IF ~IsFinite(b) THEN 0
  ELSE IF b = 0 THEN (IF a = 0 THEN NaN ELSE PInf * Sign(a))
  ELSE Rnd(a * LS * Sign(b), b * Sign(b))

\* The doubles: the finite values with at most P significant bits, the
\* infinities and NaN.
Doubles ==
  {x \in (0 - MaxV) .. MaxV : x % Ulp(x) = 0} \cup {NInf, PInf, NaN}

\* The arithmetic of the format, tabulated once over the doubles.
AddTab == [a \in Doubles |-> [b \in Doubles |-> AddOf(a, b)]]
MulTab == [a \in Doubles |-> [b \in Doubles |-> MulOf(a, b)]]
DivTab == [a \in Doubles |-> [b \in Doubles |-> DivOf(a, b)]]

\* a + b, a - b, a * b, a / b
FAdd(a, b) == AddTab[a][b]
FSub(a, b) == AddTab[a][FNeg(b)]
FMul(a, b) == MulTab[a][b]
FDiv(a, b) == DivTab[a][b]

\* The comparisons of C: false as soon as an operand is NaN.
FGt(a, b) == ~IsNaN(a) /\ ~IsNaN(b) /\ a > b
FLt(a, b) == ~IsNaN(a) /\ ~IsNaN(b) /\ a < b
FGe(a, b) == ~IsNaN(a) /\ ~IsNaN(b) /\ a >= b
FLe(a, b) == ~IsNaN(a) /\ ~IsNaN(b) /\ a <= b

\* fabs()
FAbs(a) == IF IsNaN(a) THEN NaN ELSE IF a < 0 THEN 0 - a ELSE a

\* FFMAX(a, b) is ((a) > (b) ? (a) : (b)); FFMIN(a, b) is ((a) > (b) ? (b) : (a)).
FFMAX(a, b) == IF FGt(a, b) THEN a ELSE b
FFMIN(a, b) == IF FGt(a, b) THEN b ELSE a

\* The position of a finite x > 0 among the positive doubles, from 1.
RECURSIVE Log2(_)
Log2(q) == IF q <= 1 THEN 0 ELSE 1 + Log2(q \div 2)
Ord(x) == HalfP * Log2(Ulp(x)) + (x \div Ulp(x))

\* log() of the positive doubles in increasing order, correctly rounded.
LnTab ==
  <<
    -1408, -1216, -1152, -1088, -992, -960, -928, -896, -864, -832, -800, -768,
    -768, -736, -736, -704, -704, -672, -672, -640, -640, -640, -608, -608,
    -608, -576, -576, -576, -544, -544, -544, -544, -512, -496, -496, -480,
    -464, -448, -432, -432, -416, -416, -400, -384, -384, -368, -368, -352,
    -336, -320, -304, -304, -288, -272, -256, -248, -240, -232, -224, -208,
    -200, -192, -184, -176, -160, -144, -136, -120, -108, -96, -84, -72,
    -64, -54, -44, -34, -25, -17, -8, 0, 16, 30, 44, 58,
    68, 80, 92, 104, 116, 124, 136, 144, 152, 160, 168, 176,
    192, 208, 224, 232, 248, 256, 272, 288, 288, 304, 304, 320,
    336, 336, 352, 352, 368, 384, 400, 416, 432, 432, 448, 464,
    464, 480, 496, 496, 512, 512, 512, 544, 544, 576, 576, 576,
    608, 608, 640, 640, 640, 672, 672, 672, 672, 704, 704
  >>

\* exp(-x) of the positive doubles x in increasing order, correctly rounded.
ExpNegTab ==
  <<
    256, 256, 256, 256, 248, 248, 248, 248, 248, 248, 248, 248,
    240, 240, 240, 240, 240, 240, 240, 240, 232, 232, 232, 232,
    232, 232, 232, 232, 232, 224, 224, 224, 224, 224, 224, 216,
    216, 216, 216, 216, 208, 208, 208, 208, 208, 200, 200, 200,
    200, 192, 192, 184, 184, 184, 176, 176, 176, 168, 168, 168,
    160, 160, 160, 152, 152, 144, 144, 136, 136, 128, 124, 120,
    116, 112, 112, 108, 104, 100, 96, 96, 88, 84, 80, 72,
    68, 64, 60, 58, 54, 50, 48, 44, 42, 40, 36, 34,
    31, 27, 24, 21, 19, 16, 14, 13, 11, 10, 9, 8,
    7, 6, 5, 5, 4, 3, 2, 2, 1, 1, 1, 1,
    0, 0, 0, 0, 0, 0, 0, 0, 0, 0, 0, 0,
    0, 0, 0, 0, 0, 0, 0, 0, 0, 0, 0
  >>

\* exp(x) of the positive doubles x in increasing order, correctly rounded.
ExpPosTab ==
  <<
    256, 256, 256, 256, 256, 256, 256, 272, 272, 272, 272, 272,
    272, 272, 272, 272, 272, 272, 272, 272, 272, 272, 288, 288,
    288, 288, 288, 288, 288, 288, 288, 288, 288, 288, 304, 304,
    304, 304, 304, 304, 304, 320, 320, 320, 320, 320, 320, 336,
    336, 336, 352, 352, 352, 368, 368, 368, 384, 384, 384, 400,
    400, 416, 416, 416, 432, 448, 464, 480, 496, 512, 512, 544,
    544, 576, 608, 608, 640, 640, 672, 704, 736, 800, 832, 896,
    960, 1024, 1088, 1152, 1216, 1280, 1408, 1472, 1600, 1664, 1792, 1920,
    2176, 2432, 2816, 3072, 3584, 3968, 3969, 3969, 3969, 3969, 3969, 3969,
    3969, 3969, 3969, 3969, 3969, 3969, 3969, 3969, 3969, 3969, 3969, 3969,
    3969, 3969, 3969, 3969, 3969, 3969, 3969, 3969, 3969, 3969, 3969, 3969,
    3969, 3969, 3969, 3969, 3969, 3969, 3969, 3969, 3969, 3969, 3969
  >>

\* sqrt() of the positive doubles in increasing order, correctly rounded.
SqrtTab ==
  <<
    16, 23, 28, 32, 36, 40, 42, 46, 48, 50, 54, 56,
    58, 60, 62, 64, 64, 68, 68, 72, 72, 76, 76, 80,
    80, 80, 84, 84, 88, 88, 88, 92, 92, 96, 100, 100,
    104, 108, 108, 112, 112, 116, 116, 120, 120, 124, 124, 128,
    128, 136, 136, 144, 144, 152, 152, 160, 160, 160, 168, 168,
    176, 176, 176, 184, 184, 192, 200, 200, 208, 216, 216, 224,
    224, 232, 232, 240, 240, 248, 248, 256, 256, 272, 272, 288,
    288, 304, 304, 320, 320, 320, 336, 336, 352, 352, 352, 368,
    368, 384, 400, 400, 416, 432, 432, 448, 448, 464, 464, 480,
    480, 496, 496, 512, 512, 544, 544, 576, 576, 608, 608, 640,
    640, 640, 672, 672, 704, 704, 704, 736, 736, 768, 800, 800,
    832, 864, 864, 896, 896, 928, 928, 960, 960, 992, 992
  >>

\* log()
Ln(x) ==
  IF IsNaN(x) \/ x < 0 THEN NaN
  ELSE IF x = 0 THEN NInf
  ELSE IF x = PInf THEN PInf
  ELSE LnTab[Ord(x)]

\* exp()
Exp(x) ==
  IF IsNaN(x) THEN NaN
  ELSE IF x = PInf THEN PInf
  ELSE IF x = NInf THEN 0
  ELSE IF x = 0 THEN One
  ELSE IF x < 0 THEN ExpNegTab[Ord(0 - x)]
  ELSE ExpPosTab[Ord(x)]

\* sqrt()
Sqrt(x) ==
  IF IsNaN(x) \/ x < 0 THEN NaN
  ELSE IF x = 0 THEN 0
  ELSE IF x = PInf THEN PInf
  ELSE SqrtTab[Ord(x)]

\* ------------------------------------------------- SidechainCompressContext
\* A NULL AVFrame pointer.  A frame is [id, nb_samples, data]: data holds
\* nb_samples * channels interleaved doubles, id orders the frames of one link.
NULL == [id |-> 0, nb_samples |-> 0, data |-> <<>>]

\* The private context as the framework allocates it (zeroed) with the
\* AVOption fields set from the option record o.
NewContext(o) ==
  [attack |-> o.attack, attack_coeff |-> 0,
   release |-> o.release, release_coeff |-> 0,
   lin_slope |-> 0,
   ratio |-> o.ratio, threshold |-> o.threshold, makeup |-> o.makeup,
   mix |-> o.mix, thres |-> 0, knee |-> o.knee, knee_start |-> 0,
   knee_stop |-> 0, lin_knee_start |-> 0, compressed_knee_stop |-> 0,
   link |-> o.link, detection |-> o.detection,
   input_frame |-> <<NULL, NULL>>]

\* init(): the knee constants from threshold, knee and ratio.
init(c) ==
  LET thres == Ln(c.threshold)
      lin_knee_start == FDiv(c.threshold, Sqrt(c.knee))
      knee_start == Ln(lin_knee_start)
      knee_stop == Ln(FMul(c.threshold, Sqrt(c.knee)))
  IN  [c EXCEPT !.thres = thres,
                !.lin_knee_start = lin_knee_start,
                !.knee_start = knee_start,
                !.knee_stop = knee_stop,
                !.compressed_knee_stop =
                    FAdd(FDiv(FSub(knee_stop, thres), c.ratio), thres)]

\* A faulty variant of SmoothingCoeff: the quotient without the clamp to 1.
SmoothingCoeffUnclamped(t, rate) == FDiv(One, Rnd(t * rate, 4000))

\* FFMIN(1., 1. / (t * sample_rate / 4000.)) for a time t in milliseconds.
\* t * sample_rate lies outside the small format and far inside the range
\* of the C double, so the product is kept exact and the quotient rounded.
SmoothingCoeff(t, rate) == FFMIN(One, FDiv(One, Rnd(t * rate, 4000)))

\* A faulty variant of compressor_config_output(): it also restarts the
\* envelope.
compressor_config_output_reset(c, rate) ==
  [c EXCEPT !.attack_coeff = SmoothingCoeff(c.attack, rate),
            !.release_coeff = SmoothingCoeff(c.release, rate),
            !.lin_slope = 0]

\* compressor_config_output(): the smoothing coefficients.
compressor_config_output(c, rate) ==
  [c EXCEPT !.attack_coeff = SmoothingCoeff(c.attack, rate),
            !.release_coeff = SmoothingCoeff(c.release, rate)]

\* FAKE_INFINITY is 65536.0 * 65536.0: above MaxV, so the product is
\* infinity in this format.
FAKE_INFINITY == PInf
IS_FAKE_INFINITY(value) == FLt(FAbs(FSub(value, FAKE_INFINITY)), One)

\* hermite_interpolation(x, x0, x1, p0, p1, m0, m1): the cubic through
\* (x0, p0) with slope m0 and (x1, p1) with slope m1, evaluated at x.  Its
\* steps, last first: ct3 * t3 + ct2 * t2 + ct1 * t + ct0;
HermiteCubic(t, t2, t3, ct0, ct1, ct2, ct3) ==
  FAdd(FAdd(FAdd(FMul(ct3, t3), FMul(ct2, t2)), FMul(ct1, t)), ct0)

\* t3 = t2 * t and the coefficients ct0 .. ct3;
HermiteCoefficients(t, t2, p0, p1, m0, m1) ==
  HermiteCubic(t, t2, FMul(t2, t), p0, m0,
               FSub(FAdd(FSub(FMul(FNeg(Three), p0), FMul(Two, m0)),
                         FMul(Three, p1)), m1),
               FAdd(FSub(FAdd(FMul(Two, p0), m0), FMul(Two, p1)), m1))

\* t = (x - x0) / width, m0 *= width, m1 *= width, t2 = t * t;
HermiteScaled(t, p0, p1, m0, m1) ==
  HermiteCoefficients(t, FMul(t, t), p0, p1, m0, m1)

HermiteAcross(x, x0, width, p0, p1, m0, m1) ==
  HermiteScaled(FDiv(FSub(x, x0), width), p0, p1,
                FMul(m0, width), FMul(m1, width))

\* width = x1 - x0.
hermite_interpolation(x, x0, x1, p0, p1, m0, m1) ==
  HermiteAcross(x, x0, FSub(x1, x0), p0, p1, m0, m1)

\* The log-domain level output_gain() works on: log(lin_slope), halved in
\* rms detection.
LogSlope(lin_slope, detection) ==
  IF detection # 0 THEN FMul(Ln(lin_slope), Half) ELSE Ln(lin_slope)

\* The compressed line (slope - thres) / ratio + thres, flat at thres for
\* the infinite ratio.
CompressedLine(slope, ratio, thres) ==
  IF IS_FAKE_INFINITY(ratio) THEN thres
  ELSE FAdd(FDiv(FSub(slope, thres), ratio), thres)

\* delta: the slope of the compressed line, the tangent at knee_stop.
Delta(ratio) == IF IS_FAKE_INFINITY(ratio) THEN 0 ELSE FDiv(One, ratio)

\* The log-domain output level at slope: the knee's cubic below knee_stop
\* when knee > 1, else the compressed line.
GainCurve(slope, ratio, thres, knee, knee_start, knee_stop, compressed_knee_stop) ==
  IF FGt(knee, One) /\ FLt(slope, knee_stop)
  THEN hermite_interpolation(slope, knee_start, knee_stop,
                             knee_start, compressed_knee_stop,
                             One, Delta(ratio))
  ELSE CompressedLine(slope, ratio, thres)

\* exp(gain - slope)
GainAt(slope, ratio, thres, knee, knee_start, knee_stop, compressed_knee_stop) ==
  Exp(FSub(GainCurve(slope, ratio, thres, knee, knee_start, knee_stop,
                     compressed_knee_stop), slope))

\* output_gain()
output_gain(lin_slope, ratio, thres, knee, knee_start, knee_stop, compressed_knee_stop, detection) ==
  GainAt(LogSlope(lin_slope, detection), ratio, thres, knee, knee_start,
         knee_stop, compressed_knee_stop)

\* ------------------------------------------------------------ compressor()
\* The linked magnitude of one detector sample: the channels scsrc[0 ..
\* channels-1] at offset q of mem, by maximum (link 1) or by average.
RECURSIVE LinkMax(_, _, _, _, _)
LinkMax(mem, q, c, channels, acc) ==
  IF c >= channels THEN acc
  ELSE LinkMax(mem, q, c + 1, channels, FFMAX(FAbs(mem[q + c + 1]), acc))

RECURSIVE LinkSum(_, _, _, _, _)
LinkSum(mem, q, c, channels, acc) ==
  IF c >= channels THEN acc
  ELSE LinkSum(mem, q, c + 1, channels, FAdd(acc, FAbs(mem[q + c + 1])))

\* An int converted to double.
IntToDouble(n) == Rnd(n * LS, 1)

LinkedMagnitude(mem, q, channels, link) ==
  IF link = 1 THEN LinkMax(mem, q, 1, channels, FAbs(mem[q + 1]))
  ELSE FDiv(LinkSum(mem, q, 1, channels, FAbs(mem[q + 1])),
            IntToDouble(channels))

\* The magnitude after detection shaping: squared in rms detection.
ShapedMagnitude(abs_sample, detection) ==
  IF detection # 0 THEN FMul(abs_sample, abs_sample) ELSE abs_sample

\* lin_slope += (abs_sample - lin_slope) * (abs_sample > lin_slope ? attack_coeff : release_coeff)
EnvelopeUpdate(lin_slope, abs_sample, attack_coeff, release_coeff) ==
  FAdd(lin_slope,
       FMul(FSub(abs_sample, lin_slope),
            IF FGt(abs_sample, lin_slope) THEN attack_coeff ELSE release_coeff))

\* A faulty variant of SampleGain: the comparison with lin_knee_start is
\* missing.
SampleGainNoKnee(c) ==
  IF FGt(c.lin_slope, 0)
  THEN output_gain(c.lin_slope, c.ratio, c.thres, c.knee, c.knee_start,
                   c.knee_stop, c.compressed_knee_stop, c.detection)
  ELSE One

\* The gain of one sample: output_gain() above the knee's lower bound, else 1.
SampleGain(c) ==
  IF FGt(c.lin_slope, 0) /\ FGt(c.lin_slope, c.lin_knee_start)
  THEN output_gain(c.lin_slope, c.ratio, c.thres, c.knee, c.knee_start,
                   c.knee_stop, c.compressed_knee_stop, c.detection)
  ELSE One

\* gain * makeup * mix + (1. - mix)
MixFactor(gain, makeup, mix) ==
  FAdd(FMul(FMul(gain, makeup), mix), FSub(One, mix))

\* sample[c] *= factor for the channels c .. channels-1 at offset p of mem.
RECURSIVE ApplyGain(_, _, _, _, _)
ApplyGain(mem, p, c, channels, factor) ==
  IF c >= channels THEN mem
  ELSE ApplyGain([mem EXCEPT ![p + c + 1] = FMul(mem[p + c + 1], factor)],
                 p, c + 1, channels, factor)

\* One iteration of the loop of compressor() on the state st = [c, mem,
\* trace]: the sample at offset p, the detector sample at offset q.  The
\* trace records, per sample, the linked magnitude, the shaped magnitude,
\* lin_slope before and after the update, and the gain.  Its steps, last
\* first: the gain is applied to the channels of the sample;
StepApplied(st, p, in_channels, linked, abs_sample, lin_slope, gain) ==
  [c |-> [st.c EXCEPT !.lin_slope = lin_slope],
   mem |-> ApplyGain(st.mem, p, 0, in_channels,
                     MixFactor(gain, st.c.makeup, st.c.mix)),
   trace |-> Append(st.trace,
                    [linked |-> linked, mag |-> abs_sample,
                     before |-> st.c.lin_slope, after |-> lin_slope,
                     gain |-> gain])]

\* the gain is computed from the updated lin_slope;
StepUpdated(st, p, in_channels, linked, abs_sample, lin_slope) ==
  StepApplied(st, p, in_channels, linked, abs_sample, lin_slope,
              SampleGain([st.c EXCEPT !.lin_slope = lin_slope]))

\* lin_slope is updated;
StepDetected(st, p, in_channels, linked, abs_sample) ==
  StepUpdated(st, p, in_channels, linked, abs_sample,
              EnvelopeUpdate(st.c.lin_slope, abs_sample, st.c.attack_coeff,
                             st.c.release_coeff))

\* the linked magnitude is shaped;
StepLinked(st, p, in_channels, linked) ==
  StepDetected(st, p, in_channels, linked,
               ShapedMagnitude(linked, st.c.detection))

\* A faulty variant of SampleStep: the sample is scaled, by the gain of the
\* envelope so far, before the detector channels are read.
SampleStepWriteFirst(st, p, q, in_channels, sc_channels) ==
  StepLinked(st, p, in_channels,
             LinkedMagnitude(ApplyGain(st.mem, p, 0, in_channels,
                                       MixFactor(SampleGain(st.c),
                                                 st.c.makeup, st.c.mix)),
                             q, sc_channels, st.c.link))

\* the detector channels are linked.
SampleStep(st, p, q, in_channels, sc_channels) ==
  StepLinked(st, p, in_channels,
             LinkedMagnitude(st.mem, q, sc_channels, st.c.link))

\* The loop of compressor(): samples i .. nb_samples-1, sample at offset p
\* and scsrc at offset q of the memory mem.
RECURSIVE CompressorLoop(_, _, _, _, _, _, _)
CompressorLoop(st, i, nb_samples, p, q, in_channels, sc_channels) ==
  IF i >= nb_samples THEN st
  ELSE CompressorLoop(SampleStep(st, p, q, in_channels, sc_channels),
                      i + 1, nb_samples, p + in_channels, q + sc_channels,
                      in_channels, sc_channels)

\* A faulty variant of compressor(): each call starts its envelope afresh.
compressor_fresh(c, mem, p, q, nb_samples, in_channels, sc_channels) ==
  CompressorLoop([c |-> [c EXCEPT !.lin_slope = 0], mem |-> mem,
                  trace |-> <<>>],
                 0, nb_samples, p, q, in_channels, sc_channels)

\* compressor(s, sample, scsrc, nb_samples, inlink, sclink) on the memory
\* mem, in which sample and scsrc are the offsets p and q.
compressor(c, mem, p, q, nb_samples, in_channels, sc_channels) ==
  CompressorLoop([c |-> c, mem |-> mem, trace |-> <<>>], 0, nb_samples,
                 p, q, in_channels, sc_channels)

\* ------------------------------------------------------------------ state
VARIABLES
  s,             \* the SidechainCompressContext of the filter instance
  sample_rate,   \* outlink->sample_rate, 0 until the output is configured
  in_channels,   \* ctx->inputs[0]->channels
  sc_channels,   \* the channels of the detector link
  pc,            \* "new"; "idle" between callbacks; "init_done",
                 \* "config_done", "sent", "requested" when that callback
                 \* has just returned; "aborted"
  ret,           \* the value the last callback returned
  call,          \* the last compressor() call: its buffers and lin_slope on
                 \* entry, the primary buffer on return
  trace,         \* the per-sample record of the last compressor() call
  stream,        \* the compressor() calls of the two-input filter followed
                 \* as one stream
  arrived,       \* the number of frames each input link has delivered
  forwarded,     \* the frames sent downstream, in order
  assert_failed, \* av_assert0 in filter_frame() failed
  null_read      \* request_frame() read nb_samples through a NULL frame

vars == <<s, sample_rate, in_channels, sc_channels, pc, ret, call, trace,
          stream, arrived, forwarded, assert_failed, null_read>>

side_vars == <<stream, arrived, forwarded, assert_failed, null_read>>

\* ----------------------------------------------------------------- bounds
\* The longest frame, in samples.
MaxSamples == 2
\* The number of frames an input link of the two-input filter delivers.
MaxFrames == 2
\* The longest stream, in samples, followed across calls.
MaxStream == 3

\* ----------------------------------------------------------------- inputs
\* Option values, inside the ranges of the AVOption table: threshold 0.25,
\* ratio 2, attack 0.25 ms, release 1 ms, makeup 2, knee 1 or 4, mix 0 or
\* 0.5.
Options ==
  [threshold : {LS \div 4}, ratio : {2 * LS}, attack : {LS \div 4},
   release : {LS}, makeup : {2 * LS}, knee : {LS, 4 * LS},
   link : {0, 1}, detection : {0, 1}, mix : {0, LS \div 2}]

\* Sample rates: at 8000 Hz attack_coeff is clamped to 1 and release_coeff
\* is 0.5; at 32000 Hz they are 0.5 and 0.125.
SampleRates == {8000, 32000}

ChannelCounts == {1, 2}

\* Sample values: 0, -0.234375, 1.0 and 8.0, whose square and whose sum with
\* itself exceed MaxV.
SampleValues == {0, 0 - 60, LS, 8 * LS}

\* The samples of a frame of ch channels: every value on one channel; on
\* two channels a pair of zeros, two pairs on which the average and the
\* maximum differ, and the pair whose sum exceeds MaxV.
SamplePoints(ch) ==
  IF ch = 1 THEN {<<v>> : v \in SampleValues}
  ELSE {<<0, 0>>, <<0 - 60, 0>>, <<LS, 0 - 60>>, <<8 * LS, 8 * LS>>}

\* The interleaved data of a frame whose samples are f[1], f[2], ...
Interleaved(f, ch) ==
  [i \in 1 .. Len(f) * ch |-> f[((i - 1) \div ch) + 1][((i - 1) % ch) + 1]]

\* The data of the frames of at most MaxSamples samples drawn from points.
FrameData(points, ch) ==
  UNION {{Interleaved(f, ch) : f \in [1 .. n -> points]} :
         n \in 1 .. MaxSamples}

\* AVERROR(e): error codes are negative.
EINVAL == 22
ENOMEM == 12
AVERROR(e) == 0 - e

NoCall == [primary |-> <<>>, detector |-> <<>>, slope |-> 0, out |-> <<>>,
           nb_samples |-> 0, aliased |-> FALSE]
NoStream == [primary |-> <<>>, detector |-> <<>>, slope |-> 0, out |-> <<>>,
             calls |-> 0]

\* ------------------------------------------------------------ acompressor
\* The filter after allocation: options set, the context otherwise zero.
Init ==
  /\ \E o \in Options : s = NewContext(o)
  /\ sample_rate = 0
  /\ in_channels \in ChannelCounts
  /\ sc_channels = in_channels
  /\ pc = "new"
  /\ ret = 0
  /\ call = NoCall
  /\ trace = <<>>
  /\ stream = NoStream
  /\ arrived = <<0, 0>>
  /\ forwarded = <<>>
  /\ assert_failed = FALSE
  /\ null_read = FALSE

\* .init: at creation, and again when the filter is re-initialised between
\* callbacks.
FilterInit ==
  /\ pc \in {"new", "idle"}
  /\ s' = init(s)
  /\ pc' = "init_done"
  /\ ret' = 0
  /\ UNCHANGED <<sample_rate, in_channels, sc_channels, call, trace,
                 side_vars>>

\* .config_props of acompressor: compressor_config_output() on the output
\* link, at configuration and on a later reconfiguration of the link.
ConfigOutput(rate) ==
  /\ pc = "idle"
  /\ s' = compressor_config_output(s, rate)
  /\ sample_rate' = rate
  /\ pc' = "config_done"
  /\ ret' = 0
  /\ UNCHANGED <<in_channels, sc_channels, call, trace, side_vars>>

\* A frame of the single-input filter, processed with the result r of
\* compressor(), is handed to ff_filter_frame().
FrameSent(data, r) ==
  /\ s' = r.c
  /\ trace' = r.trace
  /\ call' = [primary |-> data, detector |-> data, slope |-> s.lin_slope,
              out |-> r.mem, nb_samples |-> Len(data) \div in_channels,
              aliased |-> TRUE]
  /\ pc' = "sent"
  /\ ret' = 0
  /\ UNCHANGED <<sample_rate, in_channels, sc_channels, side_vars>>

\* acompressor_filter_frame(): the frame is the primary and the detector
\* buffer at once (sample = scsrc = frame->data[0]); it is processed in
\* place and sent downstream.
acompressor_filter_frame(data) ==
  /\ pc = "idle"
  /\ sample_rate # 0
  /\ FrameSent(data, compressor(s, data, 0, 0, Len(data) \div in_channels,
                                in_channels, in_channels))

\* The callback has returned and the framework is between callbacks again;
\* what was observed of the last call is dropped.
Return ==
  /\ pc \in {"init_done", "config_done", "sent", "requested"}
  /\ pc' = "idle"
  /\ call' = NoCall
  /\ trace' = <<>>
  /\ UNCHANGED <<s, sample_rate, in_channels, sc_channels, ret, side_vars>>

Next ==
  \/ FilterInit
  \/ \E rate \in SampleRates : ConfigOutput(rate)
  \/ \E data \in FrameData(SamplePoints(in_channels), in_channels) :
       acompressor_filter_frame(data)
  \/ Return

Spec == Init /\ [][Next]_vars

\* ------------------------------------------------------- sidechaincompress
\* The options of the two-input filter's runs: soft knee, half wet, peak
\* detection, either link mode.
SideOptions ==
  {o \in Options : o.knee = 4 * LS /\ o.mix = LS \div 2 /\ o.detection = 0}

\* What the main input delivers and what the sidechain input delivers.  The
\* requested sample count (request_samples) is a hint to the upstream
\* link, whose code is not part of this file: the sidechain frame may be
\* of any length.
MainPoints == {<<LS>>}
SidePoints(ch) ==
  IF ch = 1 THEN {<<0>>, <<LS>>} ELSE {<<0, 0>>, <<LS, 0 - 60>>}

Frame(id, data, ch) ==
  [id |-> id, nb_samples |-> Len(data) \div ch, data |-> data]

\* The two-input filter after allocation.
InitSide ==
  /\ \E o \in SideOptions : s = NewContext(o)
  /\ sample_rate = 0
  /\ in_channels = 1
  /\ sc_channels \in ChannelCounts
  /\ pc = "new"
  /\ ret = 0
  /\ call = NoCall
  /\ trace = <<>>
  /\ stream = NoStream
  /\ arrived = <<0, 0>>
  /\ forwarded = <<>>
  /\ assert_failed = FALSE
  /\ null_read = FALSE

\* config_output(): refuses inputs of different sample rates, else copies
\* the main input's rate to the output and derives the coefficients.  The
\* output link is configured once, before any frame is requested.
config_output(rate0, rate1) ==
  /\ pc = "idle"
  /\ sample_rate = 0
  /\ IF rate0 # rate1
     THEN /\ ret' = AVERROR(EINVAL)
          /\ UNCHANGED <<s, sample_rate>>
     ELSE /\ sample_rate' = rate0
          /\ s' = compressor_config_output(s, rate0)
          /\ ret' = 0
  /\ pc' = "config_done"
  /\ UNCHANGED <<in_channels, sc_channels, call, trace, side_vars>>

\* The stream followed across calls, extended by an aligned call on primary
\* and detector samples: restarted at this call once it would exceed
\* MaxStream samples.
Followed(st, primary, detector, slope, out) ==
  IF st.calls > 0 /\
     Len(st.primary) + Len(primary) <= MaxStream * in_channels
  THEN [st EXCEPT !.primary = st.primary \o primary,
                  !.detector = st.detector \o detector,
                  !.out = st.out \o out,
                  !.calls = st.calls + 1]
  ELSE [primary |-> primary, detector |-> detector, slope |-> slope,
        out |-> out, calls |-> 1]

\* What a callback of the two-input filter works on: the context and what
\* is observed of the run.
Env ==
  [c |-> s, ret |-> ret, call |-> call, trace |-> trace, stream |-> stream,
   forwarded |-> forwarded, assert_failed |-> assert_failed]

\* A faulty variant of PairForwarded: the sidechain frame is not freed and
\* stays in its slot.
PairForwardedKeepsSide(e, main, side, nb_samples, slope, r, down) ==
  [e EXCEPT
     !.c = [r.c EXCEPT !.input_frame = <<NULL, side>>],
     !.ret = down,
     !.trace = r.trace,
     !.call = [primary |-> main.data, detector |-> side.data,
               slope |-> slope, out |-> SubSeq(r.mem, 1, Len(main.data)),
               nb_samples |-> nb_samples, aliased |-> FALSE],
     !.stream =
       Followed(e.stream,
                SubSeq(main.data, 1, nb_samples * in_channels),
                SubSeq(side.data, 1, nb_samples * sc_channels),
                slope,
                SubSeq(r.mem, 1, nb_samples * in_channels)),
     !.forwarded =
       Append(e.forwarded,
              [main |-> main.id, side |-> side.id,
               nb_main |-> main.nb_samples, nb_side |-> side.nb_samples,
               data |-> SubSeq(r.mem, 1, Len(main.data))])]

\* filter_frame() on input pad i (1 is the main input, inputs[0]; 2 is the
\* sidechain, inputs[1]) with the frame the link delivers; down is what
\* ff_filter_frame() returns for the output link.  Its steps, last first:
\* the main frame, processed with the result r of compressor(), is sent
\* downstream and both slots are cleared;
PairForwarded(e, main, side, nb_samples, slope, r, down) ==
  [e EXCEPT
     !.c = [r.c EXCEPT !.input_frame = <<NULL, NULL>>],
     !.ret = down,
     !.trace = r.trace,
     !.call = [primary |-> main.data, detector |-> side.data,
               slope |-> slope, out |-> SubSeq(r.mem, 1, Len(main.data)),
               nb_samples |-> nb_samples, aliased |-> FALSE],
     !.stream =
       Followed(e.stream,
                SubSeq(main.data, 1, nb_samples * in_channels),
                SubSeq(side.data, 1, nb_samples * sc_channels),
                slope,
                SubSeq(r.mem, 1, nb_samples * in_channels)),
     !.forwarded =
       Append(e.forwarded,
              [main |-> main.id, side |-> side.id,
               nb_main |-> main.nb_samples, nb_side |-> side.nb_samples,
               data |-> SubSeq(r.mem, 1, Len(main.data))])]

\* compressor() runs on the two frames for nb_samples samples;
PairProcessed(e, c, main, side, nb_samples, down) ==
  PairForwarded(e, main, side, nb_samples, c.lin_slope,
                compressor(c, main.data \o side.data, 0, Len(main.data),
                           nb_samples, in_channels, sc_channels),
                down)

\* with the frame stored, return 0 unless both slots are full, else
\* nb_samples is the smaller of the two sample counts;
FrameStored(e, c, down) ==
  IF c.input_frame[1] = NULL \/ c.input_frame[2] = NULL
  THEN [e EXCEPT !.c = c, !.ret = 0]
  ELSE PairProcessed(e, c, c.input_frame[1], c.input_frame[2],
                     FFMIN(c.input_frame[1].nb_samples,
                           c.input_frame[2].nb_samples),
                     down)

\* av_assert0(i < 2 && !s->input_frame[i]), whose failure aborts the
\* process, and s->input_frame[i] = frame.
filter_frame(e, i, frame, down) ==
  IF e.c.input_frame[i] # NULL
  THEN [e EXCEPT !.assert_failed = TRUE]
  ELSE FrameStored(e, [e.c EXCEPT !.input_frame[i] = frame], down)

\* request_frame() on the output link.  up[i] is what ff_request_frame()
\* on input i leads to if it is called: NULL when the link fails (its
\* error code is returned), else the frame the link delivers, which
\* reaches filter_frame() before ff_request_frame() returns; down is what
\* the output link returns for a frame sent to it.  Its steps, last
\* first: request_frame() returns r, having received got0 and got1 frames;
\* reading nb_samples through a NULL pointer ends the process;
RequestReturned(e, r, null, got0, got1) ==
  /\ s' = e.c
  /\ ret' = r
  /\ call' = e.call
  /\ trace' = e.trace
  /\ stream' = e.stream
  /\ forwarded' = e.forwarded
  /\ assert_failed' = e.assert_failed
  /\ null_read' = null
  /\ arrived' = <<arrived[1] + got0, arrived[2] + got1>>
  /\ pc' = IF e.assert_failed \/ null THEN "aborted" ELSE "requested"
  /\ UNCHANGED <<sample_rate, in_channels, sc_channels>>

\* the iteration i = 1, after the iteration i = 0 left e;
RequestSidechain(e, got0, up, down) ==
  IF e.assert_failed \/ e.ret < 0
  THEN RequestReturned(e, e.ret, FALSE, got0, 0)
  ELSE IF e.c.input_frame[1] = NULL
  THEN RequestReturned(e, e.ret, TRUE, got0, 0)
  ELSE IF e.c.input_frame[2] # NULL
  THEN RequestReturned(e, 0, FALSE, got0, 0)
  ELSE IF up[2] = NULL
  THEN RequestReturned(e, AVERROR(ENOMEM), FALSE, got0, 0)
  ELSE RequestReturned(filter_frame(e, 2, up[2], down),
                       IF down < 0 THEN down ELSE 0, FALSE, got0, 1)

\* the iteration i = 0.
request_frame(up, down) ==
  /\ pc = "idle"
  /\ sample_rate # 0
  /\ IF s.input_frame[1] # NULL
     THEN RequestSidechain([Env EXCEPT !.ret = 0], 0, up, down)
     ELSE IF up[1] = NULL
     THEN RequestReturned(Env, AVERROR(ENOMEM), FALSE, 0, 0)
     ELSE RequestSidechain(filter_frame(Env, 1, up[1], down), 1, up, down)

\* The outcomes of a request on input i: failure, or, while the link has
\* delivered fewer than MaxFrames frames, its next frame.
Upstream(i, points, ch) ==
  {NULL} \cup
  (IF arrived[i] < MaxFrames
   THEN {Frame(arrived[i] + 1, d, ch) : d \in FrameData(points, ch)}
   ELSE {})

NextSide ==
  \/ FilterInit
  \/ \E rate0, rate1 \in SampleRates : config_output(rate0, rate1)
  \/ \E m \in Upstream(1, MainPoints, in_channels),
        d \in Upstream(2, SidePoints(sc_channels), sc_channels),
        down \in {0, AVERROR(ENOMEM)} :
       request_frame(<<m, d>>, down)
  \/ Return

SpecSide == InitSide /\ [][NextSide]_vars

\* ----------------------------------------------------------- properties
\* The entries of the trace of the last compressor() call.
Entries == {trace[k] : k \in 1 .. Len(trace)}

\* An update of lin_slope on finite values.
FiniteUpdate(e) == IsFinite(e.before) /\ IsFinite(e.mag)

\* The double next above a finite x >= 0: infinity above the largest.
Succ(x) == IF x + Ulp(x) > MaxV THEN PInf ELSE x + Ulp(x)

\* C1: from lin_slope = 0 and coefficients in (0, 1], lin_slope >= 0 holds
\* after every per-sample update of compressor(), for any sequence of
\* calls, any detector sample values, any detector channel count, either
\* link mode and either detection mode.
LinSlopeNonNegative ==
  /\ FGe(s.lin_slope, 0)
  /\ \A e \in Entries : FGe(e.after, 0)

\* C2, as claimed: with the shaped magnitude m above lin_slope, the update
\* does not decrease lin_slope and does not take it above m; with m below
\* lin_slope, the update does not increase lin_slope and does not take it
\* below m.  Stated of the updates on finite values.
EnvelopeNeverOvershoots ==
  \A e \in Entries :
    FiniteUpdate(e) =>
      /\ FGt(e.mag, e.before) => FLe(e.before, e.after) /\ FLe(e.after, e.mag)
      /\ FLt(e.mag, e.before) => FLe(e.mag, e.after) /\ FLe(e.after, e.before)

\* C2, amended: on finite values, with m above lin_slope the update does
\* not decrease lin_slope and takes it at most to the double next above m;
\* with m below lin_slope the update does not increase lin_slope, keeps it
\* at or above 0 and takes it below m by at most the spacing of the
\* doubles at the lin_slope it started from.
EnvelopeOvershootsWithinRounding ==
  \A e \in Entries :
    FiniteUpdate(e) =>
      /\ ~IsNaN(e.after)
      /\ FGt(e.mag, e.before) =>
           e.before <= e.after /\ e.after <= Succ(e.mag)
      /\ FLt(e.mag, e.before) =>
           /\ e.after <= e.before
           /\ e.after >= 0
           /\ e.after >= e.mag - Ulp(e.before)

\* C2's case: a magnitude held over two samples that lin_slope approaches
\* from below, the first update ending above the magnitude's neighbourhood
\* of lin_slope and the second not decreasing it.
EnvelopeAttackHeld ==
  /\ Len(trace) >= 2
  /\ FiniteUpdate(trace[1]) /\ FiniteUpdate(trace[2])
  /\ trace[1].mag = trace[2].mag
  /\ trace[1].linked = trace[2].linked
  /\ FGt(trace[1].mag, trace[1].before)
  /\ trace[1].after > trace[1].before
  /\ trace[1].after < trace[1].mag
  /\ trace[2].after > trace[1].after

\* C3: with mix = 0 a processing call leaves every sample of the primary
\* buffer unchanged, whatever lin_slope, the detector samples and the other
\* parameters are.
MixZeroLeavesPrimary ==
  (call # NoCall /\ s.mix = 0) => call.out = call.primary

\* C5, as claimed: with the detector held at a magnitude below
\* lin_knee_start the envelope reaches a value of gain exactly 1.  Once an
\* update leaves lin_slope where it was, every later update at that
\* magnitude does too, so there the gain is 1.
UnityBelowKneeEventually ==
  \A e \in Entries :
    (FiniteUpdate(e) /\ FLt(e.linked, s.lin_knee_start) /\
     e.after = e.before)
      => e.gain = One

\* C5, amended: when lin_slope is not above lin_knee_start and the linked
\* magnitude of the sample is below lin_knee_start, the gain of the sample
\* is exactly 1 and lin_slope stays not above lin_knee_start; so from
\* lin_slope = 0 the gain is 1 on every sample of such a signal.
UnityBelowKnee ==
  \A e \in Entries :
    (FLt(e.linked, s.lin_knee_start) /\ ~FGt(e.before, s.lin_knee_start))
      => e.gain = One /\ ~FGt(e.after, s.lin_knee_start)

\* C5's case: a non-zero sample below lin_knee_start raises the envelope,
\* which started not above lin_knee_start, and the gain is 1.
UnityBelowKneeAttack ==
  \E e \in Entries :
    /\ FLt(e.linked, s.lin_knee_start)
    /\ FGt(e.linked, 0)
    /\ e.after > e.before
    /\ e.gain = One

\* C6: for knee > 1, in both detection modes, the log-domain slope at the
\* no-reduction cutoff lin_slope = lin_knee_start is knee_start, where the
\* Hermite curve takes the value knee_start, so that the gain there is 1;
\* and the curve's value at knee_stop, compressed_knee_stop, is the
\* compressed line's.
KneeContinuous ==
  (pc # "new" /\ FGt(s.knee, One)) =>
    /\ LogSlope(s.lin_knee_start, s.detection) = s.knee_start
    /\ output_gain(s.lin_knee_start, s.ratio, s.thres, s.knee,
                   s.knee_start, s.knee_stop, s.compressed_knee_stop,
                   s.detection) = One
    /\ CompressedLine(s.knee_stop, s.ratio, s.thres) = s.compressed_knee_stop

\* C7: init() and compressor_config_output() leave lin_slope as it was:
\* lin_slope is 0 in the new filter and changes only in a step of
\* acompressor_filter_frame(), through compressor().
OnlyCompressorWritesLinSlope ==
  /\ [](pc = "new" => s.lin_slope = 0)
  /\ [][s'.lin_slope # s.lin_slope => pc' = "sent"]_vars

\* C7's case: the coefficients were derived again with the envelope under
\* way.
DerivedWithEnvelope ==
  /\ pc \in {"init_done", "config_done"}
  /\ s.lin_slope # 0

\* C10: in acompressor_filter_frame(), where scsrc is the buffer that is
\* mutated, the frame and lin_slope come out as from compressor() on the
\* frame with an untouched copy of it as scsrc.
AliasedAsSeparate ==
  (pc = "sent" /\ call.aliased) =>
    LET r == compressor([s EXCEPT !.lin_slope = call.slope],
                        call.primary \o call.primary, 0, Len(call.primary),
                        call.nb_samples, in_channels, in_channels)
    IN  /\ SubSeq(r.mem, 1, Len(call.primary)) = call.out
        /\ SubSeq(r.mem, Len(call.primary) + 1, 2 * Len(call.primary)) =
             call.primary
        /\ r.c.lin_slope = s.lin_slope

\* C10's case: a frame of two samples on two channels that the call
\* changed.
AliasedFrameChanged ==
  /\ pc = "sent"
  /\ call.aliased
  /\ call.nb_samples >= 2
  /\ in_channels = 2
  /\ call.out[1] # call.primary[1]
  /\ call.out[3] # call.primary[3]
  /\ s.lin_slope # call.slope

\* C4: a main frame and a sidechain frame of different sample counts are
\* not processed and forwarded as if the call had succeeded: every frame
\* sent downstream comes from a pair of equal sample counts.
MismatchNotForwarded ==
  \A k \in 1 .. Len(forwarded) :
    forwarded[k].nb_main = forwarded[k].nb_side

\* C8: between calls the sidechain slot is empty and the main slot holds
\* at most the last main frame; the assertion of filter_frame() holds;
\* request_frame() reads nb_samples of a frame; each main frame is sent
\* downstream once, in arrival order, with one sidechain frame, and then
\* both slots are empty.
SlotProtocol ==
  /\ ~assert_failed
  /\ ~null_read
  /\ s.input_frame[2] = NULL
  /\ s.input_frame[1] # NULL => s.input_frame[1].id = arrived[1]
  /\ Len(forwarded) = arrived[2]
  /\ arrived[1] = Len(forwarded) + (IF s.input_frame[1] # NULL THEN 1 ELSE 0)
  /\ \A k \in 1 .. Len(forwarded) :
       forwarded[k].main = k /\ forwarded[k].side = k

\* C8's case: two pairs were sent downstream, the second after a request
\* that left the main frame waiting in its slot.
TwoPairsForwarded ==
  /\ pc = "idle"
  /\ Len(forwarded) >= 2
  /\ s.input_frame = <<NULL, NULL>>

\* C9: the calls followed as one stream gave the primary samples and the
\* final lin_slope that one compressor() call on the whole stream gives.
SplitIndependent ==
  stream.calls > 0 =>
    LET r == compressor([s EXCEPT !.lin_slope = stream.slope],
                        stream.primary \o stream.detector, 0,
                        Len(stream.primary),
                        Len(stream.primary) \div in_channels,
                        in_channels, sc_channels)
    IN  /\ SubSeq(r.mem, 1, Len(stream.primary)) = stream.out
        /\ r.c.lin_slope = s.lin_slope

\* C9's case: a stream cut into two calls, the second entered with the
\* envelope the first left, both changing their samples.
StreamOfTwoCalls ==
  /\ stream.calls >= 2
  /\ call.slope # 0
  /\ s.lin_slope # call.slope
  /\ \A k \in 1 .. Len(stream.out) : stream.out[k] # stream.primary[k]

=============================================================================
